---- MODULE Spec2Model ----
(***************************************************************************)
(* Model of wiki-go's markdown rendering core, internal/utils/markdown.go: *)
(*   - pdfLinkRenderer.renderLink, driven by the engine's tree walk;       *)
(*   - RenderMarkdownFile, the file-based entry point;                     *)
(*   - RenderMarkdownWithPath, the layout dispatch and default pipeline.   *)
(* Text is a sequence of one-character strings, so that prefix, suffix,    *)
(* case folding, escaping and path splitting are computed, not assumed.    *)
(* Paths follow the '/'-separated (unix) behaviour of path/filepath.       *)
(***************************************************************************)
EXTENDS Integers, Sequences, FiniteSets, TLC

VARIABLES
    link,        \* the link node being rendered and the writer's content
    file,        \* one RenderMarkdownFile call
    registry,    \* goldext.RegisteredPreprocessors
    calls,       \* the RenderMarkdownWithPath calls in flight, by goroutine
    mermaidBlocks,    \* goldext: captured diagram blocks, by token index
    directionBlocks   \* goldext: captured direction blocks, by token index

vars == <<link, file, registry, calls, mermaidBlocks, directionBlocks>>

(***************************************************************************)
(* Bounds.                                                                 *)
(***************************************************************************)
NumCalls == 2       \* goroutines rendering concurrently
MaxBody == 2        \* items in a document body
MaxReg == 2         \* entries in the preprocessor registry
MaxDepth == 2       \* directories between the content root and a file

(***************************************************************************)
(* Strings.                                                                *)
(***************************************************************************)
UpperCase == <<"A","B","C","D","E","F","G","H","I","J","K","L","M",
               "N","O","P","Q","R","S","T","U","V","W","X","Y","Z">>
LowerCase == <<"a","b","c","d","e","f","g","h","i","j","k","l","m",
               "n","o","p","q","r","s","t","u","v","w","x","y","z">>

ToLowerChar(ch) ==
    IF \E i \in 1..26 : UpperCase[i] = ch
    THEN LowerCase[CHOOSE i \in 1..26 : UpperCase[i] = ch]
    ELSE ch

\* strings.ToLower
ToLower(s) == [i \in 1..Len(s) |-> ToLowerChar(s[i])]

\* strings.HasPrefix
HasPrefix(s, p) == Len(s) >= Len(p) /\ SubSeq(s, 1, Len(p)) = p

\* strings.HasSuffix
HasSuffix(s, x) == Len(s) >= Len(x) /\ SubSeq(s, Len(s) - Len(x) + 1, Len(s)) = x

\* strings.TrimPrefix: case-sensitive
TrimPrefix(s, p) == IF HasPrefix(s, p) THEN SubSeq(s, Len(p) + 1, Len(s)) ELSE s

\* strings.ReplaceAll(s, "\\", "/")
BackslashToSlash(s) == [i \in 1..Len(s) |-> IF s[i] = "\\" THEN "/" ELSE s[i]]

RECURSIVE Concat(_)
Concat(ss) == IF ss = <<>> THEN <<>> ELSE Head(ss) \o Concat(Tail(ss))

\* util.EscapeHTML: the four characters goldmark escapes
EscapeChar(ch) ==
    CASE ch = "&" -> <<"&","a","m","p",";">>
      [] ch = "<" -> <<"&","l","t",";">>
      [] ch = ">" -> <<"&","g","t",";">>
      [] ch = "\"" -> <<"&","q","u","o","t",";">>
      [] OTHER -> <<ch>>

EscapeHTML(s) == Concat([i \in 1..Len(s) |-> EscapeChar(s[i])])

(***************************************************************************)
(* path/filepath, '/'-separated.                                           *)
(***************************************************************************)
\* index of the last "/" of s, 0 when there is none
LastSlash(s) ==
    IF \E i \in 1..Len(s) : s[i] = "/"
    THEN CHOOSE i \in 1..Len(s) : s[i] = "/" /\ \A j \in (i+1)..Len(s) : s[j] # "/"
    ELSE 0

\* the elements of s between "/" separators
RECURSIVE Split(_)
Split(s) ==
    IF \E i \in 1..Len(s) : s[i] = "/"
    THEN LET i == CHOOSE k \in 1..Len(s) : s[k] = "/" /\ \A j \in 1..(k-1) : s[j] # "/"
         IN  <<SubSeq(s, 1, i - 1)>> \o Split(SubSeq(s, i + 1, Len(s)))
    ELSE <<s>>

RECURSIVE Join(_)
Join(segs) ==
    IF segs = <<>> THEN <<>>
    ELSE IF Len(segs) = 1 THEN segs[1]
    ELSE segs[1] \o <<"/">> \o Join(Tail(segs))

DotDot == <<".", ".">>

\* filepath.Clean's element pass: drop "" and ".", resolve ".." lexically
RECURSIVE CleanSegs(_, _, _)
CleanSegs(segs, kept, rooted) ==
    IF segs = <<>> THEN kept
    ELSE LET e == Head(segs) rest == Tail(segs) IN
         IF e = <<>> \/ e = <<".">> THEN CleanSegs(rest, kept, rooted)
         ELSE IF e = DotDot
              THEN IF kept # <<>> /\ kept[Len(kept)] # DotDot
                   THEN CleanSegs(rest, SubSeq(kept, 1, Len(kept) - 1), rooted)
                   ELSE IF rooted THEN CleanSegs(rest, kept, rooted)
                   ELSE CleanSegs(rest, Append(kept, e), rooted)
              ELSE CleanSegs(rest, Append(kept, e), rooted)

\* filepath.Clean
Clean(s) ==
    IF s = <<>> THEN <<".">>
    ELSE LET rooted == s[1] = "/"
             kept == CleanSegs(Split(s), <<>>, rooted)
         IN  IF rooted THEN <<"/">> \o Join(kept)
             ELSE IF kept = <<>> THEN <<".">> ELSE Join(kept)

\* filepath.Dir
Dir(s) == Clean(SubSeq(s, 1, LastSlash(s)))

RECURSIVE StripTrailingSlashes(_)
StripTrailingSlashes(s) ==
    IF s # <<>> /\ s[Len(s)] = "/"
    THEN StripTrailingSlashes(SubSeq(s, 1, Len(s) - 1)) ELSE s

\* filepath.Base
Base(s) ==
    IF s = <<>> THEN <<".">>
    ELSE LET t == StripTrailingSlashes(s)
             b == SubSeq(t, LastSlash(t) + 1, Len(t))
         IN  IF b = <<>> THEN <<"/">> ELSE b

\* length of the longest common prefix of two element lists
RECURSIVE CommonLen(_, _)
CommonLen(a, b) ==
    IF a # <<>> /\ b # <<>> /\ Head(a) = Head(b)
    THEN 1 + CommonLen(Tail(a), Tail(b)) ELSE 0

\* filepath.Rel: [err, path]
Rel(basepath, targpath) ==
    LET base0 == Clean(basepath)
        targ0 == Clean(targpath)
        base == IF base0 = <<".">> THEN <<>> ELSE base0
        targ == IF targ0 = <<".">> THEN <<>> ELSE targ0
        baseSlashed == base # <<>> /\ base[1] = "/"
        targSlashed == targ # <<>> /\ targ[1] = "/"
        bs == CleanSegs(Split(base), <<>>, FALSE)
        ts == CleanSegs(Split(targ), <<>>, FALSE)
        k == CommonLen(bs, ts)
    IN  IF targ0 = base0 THEN [err |-> FALSE, path |-> <<".">>]
        ELSE IF baseSlashed # targSlashed THEN [err |-> TRUE, path |-> <<>>]
        ELSE IF k < Len(bs) /\ bs[k + 1] = DotDot THEN [err |-> TRUE, path |-> <<>>]
        ELSE [err |-> FALSE,
              path |-> Join([i \in 1..(Len(bs) - k) |-> DotDot]
                            \o SubSeq(ts, k + 1, Len(ts)))]

(***************************************************************************)
(* pdfLinkRenderer.renderLink under the engine's walk of one link node.    *)
(***************************************************************************)
ApiFilesSlash == <<"/","a","p","i","/","f","i","l","e","s","/">>
ApiFiles == <<"/","a","p","i","/","f","i","l","e","s">>
DotPdf == <<".","p","d","f">>
AnchorOpen == <<"<","a"," ","h","r","e","f","=","\"">>
PdfQuery == <<"?","m","o","d","e","=","p","d","f","&","f","i","l","e","=">>
TagEnd == <<"\"",">">>
AnchorClose == <<"<","/","a",">">>
TargetBlank == <<"\""," ","t","a","r","g","e","t","=","\"","_","b","l","a","n","k","\"",">">>

\* the test of line 57, on the lower-cased destination
IsPdfFileLink(destination) ==
    /\ HasPrefix(ToLower(destination), ApiFilesSlash)
    /\ HasSuffix(ToLower(destination), DotPdf)

\* line 58
StripFilePrefix(destination) == TrimPrefix(destination, ApiFiles)

\* line 60: the href of the viewer anchor
PdfHref(destination) ==
    EscapeHTML(Dir(StripFilePrefix(destination))) \o PdfQuery
        \o Base(StripFilePrefix(destination))

\* line 60
PdfAnchor(destination, text) ==
    AnchorOpen \o PdfHref(destination) \o TagEnd \o text \o AnchorClose

\* line 67
StandardAnchor(destination, text) ==
    AnchorOpen \o EscapeHTML(destination) \o TargetBlank \o text \o AnchorClose

\* what the entering call writes
EnteringOutput(destination, text) ==
    IF IsPdfFileLink(destination) THEN PdfAnchor(destination, text)
    ELSE StandardAnchor(destination, text)

\* what the leaving call writes
LeavingOutput == AnchorClose

DestPrefixes ==
    { ApiFilesSlash,
      <<"/","A","P","I","/","F","I","L","E","S","/">>,
      <<"/","A","p","i","/","F","i","l","e","s","/">>,
      ApiFiles,
      <<"h","t","t","p","s",":","/","/","e","x","a","m","p","l","e",".","c","o","m","/">>,
      <<"/","f","i","l","e","s","/">>,
      <<>> }
DestMiddles ==
    { <<"f","o","o","/","b","a","r">>, <<"b","a","r">>, <<"a","&","b","/","c">>,
      <<"d","o","c">>, <<>> }
DestSuffixes ==
    { DotPdf, <<".","P","D","F">>, <<".","P","d","f">>, <<".","t","x","t">>,
      <<".","p","d","f",".","b","a","k">>, <<>> }
Destinations == { p \o m \o s : p \in DestPrefixes, m \in DestMiddles, s \in DestSuffixes }
LinkTexts == { <<"x">>, <<"a","<","b">> }

LinkIdle == [pc |-> "idle", Destination |-> <<>>, Text |-> <<>>, status |-> "none", w |-> <<>>]

\* renderLink(w, source, node, entering = true), lines 53-71; a failed write
\* leaves the writer as it was and stops the walk
LinkEnter ==
    /\ link.pc = "idle"
    /\ \E d \in Destinations, t \in LinkTexts, werr \in BOOLEAN :
         link' = [pc |-> IF werr THEN "stopped" ELSE "entered",
                  Destination |-> d, Text |-> t,
                  status |-> IF werr THEN "WalkStop" ELSE "WalkSkipChildren",
                  w |-> IF werr THEN <<>> ELSE EnteringOutput(d, t)]
    /\ UNCHANGED <<file, registry, calls, mermaidBlocks, directionBlocks>>

\* renderLink(w, source, node, entering = false), lines 45-51: the walk calls it
\* after the children, which WalkSkipChildren skipped
LinkLeave ==
    /\ link.pc = "entered"
    /\ \E werr \in BOOLEAN :
         link' = [link EXCEPT !.pc = IF werr THEN "stopped" ELSE "left",
                              !.status = IF werr THEN "WalkStop" ELSE "WalkContinue",
                              !.w = IF werr THEN @ ELSE @ \o LeavingOutput]
    /\ UNCHANGED <<file, registry, calls, mermaidBlocks, directionBlocks>>

\* the walk moves on to the next node
LinkNext ==
    /\ link.pc \in {"left", "stopped"}
    /\ link' = LinkIdle
    /\ UNCHANGED <<file, registry, calls, mermaidBlocks, directionBlocks>>

(***************************************************************************)
(* RenderMarkdownFile.                                                     *)
(***************************************************************************)
DataSeg == <<"d","a","t","a">>
DocumentsSeg == <<"d","o","c","u","m","e","n","t","s">>

\* filepath.Join("data", "documents"), line 96
ContentRoot == Clean(Join(<<DataSeg, DocumentsSeg>>))

\* line 93
DocDir(filePath) == Dir(filePath)

\* mutant: the fallback of line 99 taken whether or not Rel failed
RelPathBaseOnly(filePath) == BackslashToSlash(Base(DocDir(filePath)))

\* lines 96-103: the document path handed to RenderMarkdownWithPath
RelPath(filePath) ==
    LET r == Rel(ContentRoot, DocDir(filePath))
    IN  BackslashToSlash(IF r.err THEN Base(DocDir(filePath)) ELSE r.path)

DirNames == { <<"t","e","a","m">>, <<"p","a","g","e">> }
FileStems == { <<"p","a","g","e">>, <<"d","o","c","u","m","e","n","t">> }
DotMd == <<".","m","d">>
FileRoots ==
    { <<DataSeg, DocumentsSeg>>,
      <<<<".">>, DataSeg, DocumentsSeg>>,
      <<<<>>, <<"s","r","v">>, DataSeg, DocumentsSeg>>,
      <<DataSeg>>,
      <<<<"d","o","c","s">>>>,
      <<DataSeg, DocumentsSeg, DotDot, DocumentsSeg>> }
DirLists == UNION { [1..n -> DirNames] : n \in 0..MaxDepth }

FileIdle == [pc |-> "idle", root |-> <<>>, dirs |-> <<>>, stem |-> <<>>,
             filePath |-> <<>>, err |-> FALSE, docPath |-> <<>>]

\* RenderMarkdownFile(filePath), lines 85-107: a failed read returns the error,
\* otherwise RenderMarkdownWithPath is called with the resolved document path
FileRender ==
    /\ file.pc = "idle"
    /\ \E root \in FileRoots, dirs \in DirLists, stem \in FileStems, readErr \in BOOLEAN :
         LET filePath == Join(root \o dirs \o <<stem \o DotMd>>) IN
         file' = [pc |-> IF readErr THEN "failed" ELSE "rendered",
                  root |-> root, dirs |-> dirs, stem |-> stem,
                  filePath |-> filePath, err |-> readErr,
                  docPath |-> IF readErr THEN <<>> ELSE RelPath(filePath)]
    /\ UNCHANGED <<link, registry, calls, mermaidBlocks, directionBlocks>>

\* the caller takes the result
FileReturn ==
    /\ file.pc \in {"failed", "rendered"}
    /\ file' = FileIdle
    /\ UNCHANGED <<link, registry, calls, mermaidBlocks, directionBlocks>>

(***************************************************************************)
(* Documents and HTML: sequences of items [kind, s, idx].                  *)
(*   frontmatter  the metadata block, s = <<layout>>                       *)
(*   text         a paragraph of markdown                                  *)
(*   mermaid, direction   a fenced block of that family, s = its content   *)
(*   mermaidToken, directionToken   a placeholder, idx = its index         *)
(*   applied      the trace a path-aware transform leaves, s = <<name, path>> *)
(* and, in HTML, p, pre, mermaidDiv, directionDiv, kanban, links.          *)
(***************************************************************************)
Item(kind, s, idx) == [kind |-> kind, s |-> s, idx |-> idx]

NoPath == "-"
Paths == {"", "team"}
Layouts == {"", "kanban", "links", "Kanban"}
BodyItems ==
    { Item("text", <<"t">>, -1), Item("mermaid", <<"a">>, -1),
      Item("direction", <<"c">>, -1) }
Bodies == UNION { [1..n -> BodyItems] : n \in 1..MaxBody }
Docs == Bodies \cup { <<Item("frontmatter", <<l>>, -1)>> \o b : l \in Layouts, b \in Bodies }
\* the documents of the concurrent specification: no metadata block, a diagram
\* block in each, of two different contents
PlainDocs ==
    { b \in UNION { [1..n -> BodyItems \cup {Item("mermaid", <<"b">>, -1)}] : n \in 1..MaxBody } :
        \E i \in 1..Len(b) : b[i].kind = "mermaid" }
\* registry entries: nil, the two extraction preprocessors, one other transform
Nil == "nil"
Preprocessors == {"mermaid", "direction", "other"}

\* frontmatter.Parse(md): (metadata, contentWithoutFrontmatter, hasFrontmatter)
Parse(md) ==
    IF md # <<>> /\ md[1].kind = "frontmatter"
    THEN [Layout |-> md[1].s[1], content |-> Tail(md), has |-> TRUE]
    ELSE [Layout |-> "", content |-> md, has |-> FALSE]

(***************************************************************************)
(* goldext: placeholder extraction and restoration over the package's maps. *)
(* RestoreMermaidBlocks and RestoreDirectionBlocks are called with the HTML *)
(* alone (lines 140-141, 205, 209), so the blocks an extraction captured   *)
(* are package state, mermaidBlocks and directionBlocks. A token is the    *)
(* family's marker and an index; each extraction pass starts its map anew  *)
(* and numbers its tokens from 0.                                          *)
(***************************************************************************)
\* one extraction pass: every block of the family becomes a token, numbered
\* from n in order; blocks is the content captured, by index
RECURSIVE Extract(_, _, _, _)
Extract(items, family, token, n) ==
    IF items = <<>> THEN [text |-> <<>>, blocks |-> <<>>]
    ELSE LET h == Head(items) IN
         IF h.kind = family
         THEN LET r == Extract(Tail(items), family, token, n + 1)
              IN  [text |-> <<Item(token, <<>>, n)>> \o r.text,
                   blocks |-> <<h.s>> \o r.blocks]
         ELSE LET r == Extract(Tail(items), family, token, n)
              IN  [text |-> <<h>> \o r.text, blocks |-> r.blocks]

\* one restoration pass: every token the map knows becomes its block
Restore(html, token, div, blocks) ==
    [i \in 1..Len(html) |->
        IF html[i].kind = token /\ (html[i].idx + 1) \in DOMAIN blocks
        THEN Item(div, blocks[html[i].idx + 1], -1)
        ELSE html[i]]

\* the tokens a restoration pass replaces, with the content it puts in
Replaced(html, token, blocks) ==
    LET hit == SelectSeq(html, LAMBDA x : x.kind = token /\ (x.idx + 1) \in DOMAIN blocks)
    IN  [i \in 1..Len(hit) |-> Item(token, blocks[hit[i].idx + 1], hit[i].idx)]

\* the tokens an extraction pass mints, with the content it captured
Minted(token, blocks) == { Item(token, blocks[i], i - 1) : i \in DOMAIN blocks }

\* a registered preprocessor p(md, docPath): the text it returns, the maps it
\* leaves, the tokens it minted
Preprocess(p, md, path, mb, db) ==
    CASE p = "mermaid" ->
           LET r == Extract(md, "mermaid", "mermaidToken", 0)
           IN  [text |-> r.text, mb |-> r.blocks, db |-> db,
                minted |-> Minted("mermaidToken", r.blocks)]
      [] p = "direction" ->
           LET r == Extract(md, "direction", "directionToken", 0)
           IN  [text |-> r.text, mb |-> mb, db |-> r.blocks,
                minted |-> Minted("directionToken", r.blocks)]
      [] OTHER ->
           [text |-> Append(md, Item("applied", <<p, path>>, -1)),
            mb |-> mb, db |-> db, minted |-> {}]

LogEntry(fn, arg, path, out) == [fn |-> fn, arg |-> arg, path |-> path, out |-> out]

\* a chain of preprocessor invocations [pre, path], each fed the output of the one
\* before: the final text and maps, the invocations received, the tokens minted
RECURSIVE Chain(_, _, _, _)
Chain(invs, md, mb, db) ==
    IF invs = <<>> THEN [text |-> md, mb |-> mb, db |-> db, log |-> <<>>, minted |-> {}]
    ELSE LET r == Preprocess(Head(invs).pre, md, Head(invs).path, mb, db)
             rest == Chain(Tail(invs), r.text, r.mb, r.db)
         IN  [text |-> rest.text, mb |-> rest.mb, db |-> rest.db,
              log |-> <<LogEntry(Head(invs).pre, md, Head(invs).path, r.text)>> \o rest.log,
              minted |-> r.minted \cup rest.minted]

NonNil(reg) == SelectSeq(reg, LAMBDA p : p # Nil)

\* goldext.ProcessMarkdown(md, docPath): the registered preprocessors in
\* registration order, nil entries skipped
ProcessMarkdown(reg, md, docPath, mb, db) ==
    Chain([i \in 1..Len(NonNil(reg)) |-> [pre |-> NonNil(reg)[i], path |-> docPath]],
          md, mb, db)

(***************************************************************************)
(* The markup engine.                                                      *)
(***************************************************************************)
ConvertItem(x) ==
    CASE x.kind = "text" -> Item("p", x.s, -1)
      [] x.kind \in {"mermaid", "direction"} -> Item("pre", x.s, -1)
      [] x.kind = "frontmatter" -> Item("p", x.s, -1)
      [] OTHER -> x

\* markdown.Convert on success
ConvertHTML(md) == [i \in 1..Len(md) |-> ConvertItem(md[i])]

ErrorText == "Error rendering markdown with Goldmark: "

\* mutant: the error message appended to what the buffer holds
ConvertErrorAfterBuf(err, buf) == Append(buf, Item("p", <<ErrorText, err>>, -1))

\* lines 200-201: what is returned when Convert reports err; buf is what the
\* engine had written by then
ConvertErrorResult(err, buf) == <<Item("p", <<ErrorText, err>>, -1)>>

(***************************************************************************)
(* RenderMarkdownWithPath.                                                 *)
(***************************************************************************)
CallIdle ==
    [pc |-> "idle", md0 |-> <<>>, md |-> <<>>, docPath |-> "", hasFrontmatter |-> FALSE,
     Layout |-> "", contentWithoutFrontmatter |-> <<>>, preprocessors |-> <<>>,
     boardArgs |-> <<>>, linksErr |-> "unset", convertErr |-> FALSE,
     buf |-> <<>>, htmlResult |-> <<>>, result |-> <<>>, path |-> "none",
     log |-> <<>>, minted |-> {}, replaced |-> <<>>]

\* mutant: the layout compared with the wrong spelling
IsKanbanCapitalised(call) == call.hasFrontmatter /\ call.Layout = "Kanban"

\* line 120
IsKanban(call) == call.hasFrontmatter /\ call.Layout = "kanban"

\* line 150
IsLinks(call) == call.hasFrontmatter /\ call.Layout = "links"

\* lines 126-136: one closure per non-nil registry entry, in order
WrapPreprocessors(reg, docPath) ==
    [i \in 1..Len(NonNil(reg)) |->
        [capturedPreprocessor |-> NonNil(reg)[i], capturedDocPath |-> docPath]]

\* mutant: the wrapper passes on the path it was called with
WrappedInvocationPassesArg(wrapper, arg2) ==
    [pre |-> wrapper.capturedPreprocessor, path |-> arg2]

\* lines 131-133: the invocation a wrapper makes when called with (md, arg2)
WrappedInvocation(wrapper, arg2) ==
    [pre |-> wrapper.capturedPreprocessor, path |-> wrapper.capturedDocPath]

\* mutant: the two restorations in the other order
PostProcessorDirectionFirst(html, mb, db) ==
    LET d == Restore(html, "directionToken", "directionDiv", db)
        m == Restore(d, "mermaidToken", "mermaidDiv", mb)
    IN  [html |-> m,
         log |-> <<LogEntry("RestoreDirectionBlocks", html, NoPath, d),
                   LogEntry("RestoreMermaidBlocks", d, NoPath, m)>>,
         replaced |-> Replaced(html, "directionToken", db)
                        \o Replaced(d, "mermaidToken", mb)]

\* lines 139-143: the post-processor handed to the board renderer
PostProcessor(html, mb, db) ==
    LET m == Restore(html, "mermaidToken", "mermaidDiv", mb)
        d == Restore(m, "directionToken", "directionDiv", db)
    IN  [html |-> d,
         log |-> <<LogEntry("RestoreMermaidBlocks", html, NoPath, m),
                   LogEntry("RestoreDirectionBlocks", m, NoPath, d)>>,
         replaced |-> Replaced(html, "mermaidToken", mb)
                        \o Replaced(m, "directionToken", db)]

\* mutant: the text as it was passed in, metadata block included
DefaultInputUnstripped(call) == call.md0

\* lines 160-163: the text the default pipeline starts from
DefaultInput(call) ==
    IF call.hasFrontmatter THEN call.contentWithoutFrontmatter ELSE call.md

\* RenderMarkdownWithPath(md, docPath) is entered: line 117
Enter(c, docs) ==
    /\ calls[c].pc = "idle"
    /\ \E md \in docs, docPath \in Paths :
         LET fm == Parse(md) IN
         calls' = [calls EXCEPT ![c] =
            [CallIdle EXCEPT !.pc = "L120", !.md0 = md, !.md = md, !.docPath = docPath,
                             !.hasFrontmatter = fm.has, !.Layout = fm.Layout,
                             !.contentWithoutFrontmatter = fm.content,
                             !.log = <<LogEntry("Parse", md, NoPath, fm.content)>>]]
    /\ UNCHANGED <<link, file, registry, mermaidBlocks, directionBlocks>>

\* lines 120-147: the kanban branch. The board renderer calls every wrapper in
\* order, each with a second argument of its own choosing, converts the text and
\* runs the post-processor on its HTML.
Kanban(c) ==
    LET call == calls[c]
        wrappers == WrapPreprocessors(registry, call.docPath)
    IN
    /\ call.pc = "L120"
    /\ IsKanban(call)
    /\ \E args \in [1..Len(wrappers) -> Paths] :
         LET ch == Chain([i \in 1..Len(wrappers) |-> WrappedInvocation(wrappers[i], args[i])],
                         call.contentWithoutFrontmatter, mermaidBlocks, directionBlocks)
             board == <<Item("kanban", <<>>, -1)>> \o ConvertHTML(ch.text)
             post == PostProcessor(board, ch.mb, ch.db)
         IN
         /\ calls' = [calls EXCEPT ![c] =
              [call EXCEPT !.pc = "done", !.path = "kanban",
                           !.preprocessors = wrappers,
                           !.boardArgs = args,
                           !.result = post.html,
                           !.minted = ch.minted,
                           !.replaced = post.replaced,
                           !.log = @ \o <<LogEntry("RenderKanbanWithProcessors",
                                             call.contentWithoutFrontmatter, NoPath, post.html)>>
                                     \o ch.log \o post.log]]
         /\ mermaidBlocks' = ch.mb
         /\ directionBlocks' = ch.db
    /\ UNCHANGED <<link, file, registry>>

\* lines 150-158: the links branch; RenderLinks succeeds or reports a failure,
\* having produced some HTML either way
Links(c) ==
    LET call == calls[c] IN
    /\ call.pc = "L120"
    /\ ~IsKanban(call)
    /\ IsLinks(call)
    /\ \E err \in BOOLEAN :
         LET linksHTML == <<Item("links", IF err THEN <<"partial">> ELSE <<"list">>, -1)>> IN
         calls' = [calls EXCEPT ![c] =
            [call EXCEPT !.pc = IF err THEN "L161" ELSE "done",
                         !.path = IF err THEN "fallback" ELSE "links",
                         !.linksErr = IF err THEN "error" ELSE "nil",
                         !.md = IF err THEN call.contentWithoutFrontmatter ELSE @,
                         !.result = IF err THEN @ ELSE linksHTML,
                         !.log = Append(@, LogEntry("RenderLinks",
                                       call.contentWithoutFrontmatter, NoPath, linksHTML))]]
    /\ UNCHANGED <<link, file, registry, mermaidBlocks, directionBlocks>>

\* lines 160-166: the default pipeline's preprocessing
Process(c) ==
    LET call == calls[c]
        md == DefaultInput(call)
        r == ProcessMarkdown(registry, md, call.docPath, mermaidBlocks, directionBlocks)
    IN
    /\ \/ call.pc = "L161"
       \/ call.pc = "L120" /\ ~IsKanban(call) /\ ~IsLinks(call)
    /\ calls' = [calls EXCEPT ![c] =
         [call EXCEPT !.pc = "L198",
                      !.path = IF @ = "none" THEN "default" ELSE @,
                      !.md = r.text,
                      !.minted = r.minted,
                      !.log = Append(@, LogEntry("ProcessMarkdown", md, call.docPath, r.text))
                                \o r.log]]
    /\ mermaidBlocks' = r.mb
    /\ directionBlocks' = r.db
    /\ UNCHANGED <<link, file, registry>>

\* lines 195-202: Convert writes the HTML, or reports an error after writing
\* some part of it
Convert(c) ==
    LET call == calls[c]
        html == ConvertHTML(call.md)
    IN
    /\ call.pc = "L198"
    /\ \/ calls' = [calls EXCEPT ![c] =
            [call EXCEPT !.pc = "L205", !.buf = html,
                         !.log = Append(@, LogEntry("Convert", call.md, NoPath, html))]]
       \/ \E n \in 0..Len(html) :
            LET partial == SubSeq(html, 1, n) IN
            calls' = [calls EXCEPT ![c] =
              [call EXCEPT !.pc = "done", !.path = "error", !.buf = partial,
                           !.convertErr = TRUE,
                           !.result = ConvertErrorResult("write failed", partial),
                           !.log = Append(@, LogEntry("Convert", call.md, NoPath, partial))]]
    /\ UNCHANGED <<link, file, registry, mermaidBlocks, directionBlocks>>

\* line 205
RestoreMermaidBlocks(c) ==
    LET call == calls[c]
        out == Restore(call.buf, "mermaidToken", "mermaidDiv", mermaidBlocks)
    IN
    /\ call.pc = "L205"
    /\ calls' = [calls EXCEPT ![c] =
         [call EXCEPT !.pc = "L209", !.htmlResult = out,
                      !.replaced = @ \o Replaced(call.buf, "mermaidToken", mermaidBlocks),
                      !.log = Append(@, LogEntry("RestoreMermaidBlocks", call.buf, NoPath, out))]]
    /\ UNCHANGED <<link, file, registry, mermaidBlocks, directionBlocks>>

\* lines 209-212
RestoreDirectionBlocks(c) ==
    LET call == calls[c]
        out == Restore(call.htmlResult, "directionToken", "directionDiv", directionBlocks)
    IN
    /\ call.pc = "L209"
    /\ calls' = [calls EXCEPT ![c] =
         [call EXCEPT !.pc = "done", !.htmlResult = out, !.result = out,
                      !.replaced = @ \o Replaced(call.htmlResult, "directionToken",
                                                 directionBlocks),
                      !.log = Append(@, LogEntry("RestoreDirectionBlocks",
                                                 call.htmlResult, NoPath, out))]]
    /\ UNCHANGED <<link, file, registry, mermaidBlocks, directionBlocks>>

\* the caller takes the bytes
Return(c) ==
    /\ calls[c].pc = "done"
    /\ calls' = [calls EXCEPT ![c] = CallIdle]
    /\ UNCHANGED <<link, file, registry, mermaidBlocks, directionBlocks>>

Idle == \A c \in 1..NumCalls : calls[c] = CallIdle

\* process start-up: a package's init appends a preprocessor (or a nil entry) to
\* goldext.RegisteredPreprocessors; nothing registers while a render is in flight
\* or once a block has been captured
Register ==
    /\ Idle
    /\ mermaidBlocks = <<>> /\ directionBlocks = <<>>
    /\ Len(registry) < MaxReg
    /\ \E p \in Preprocessors \cup {Nil} :
         /\ p = Nil \/ \A i \in 1..Len(registry) : registry[i] # p
         /\ registry' = Append(registry, p)
    /\ UNCHANGED <<link, file, calls, mermaidBlocks, directionBlocks>>

Init ==
    /\ link = LinkIdle
    /\ file = FileIdle
    /\ registry = <<>>
    /\ calls = [c \in 1..NumCalls |-> CallIdle]
    /\ mermaidBlocks = <<>>
    /\ directionBlocks = <<>>

LinkStep == LinkEnter \/ LinkLeave \/ LinkNext

SpecLink == Init /\ [][LinkStep]_vars

FileStep == FileRender \/ FileReturn

SpecFile == Init /\ [][FileStep]_vars

\* one goroutine renders documents one after another
Next ==
    \/ Register
    \/ Enter(1, Docs)
    \/ Kanban(1)
    \/ Links(1)
    \/ Process(1)
    \/ Convert(1)
    \/ RestoreMermaidBlocks(1)
    \/ RestoreDirectionBlocks(1)
    \/ Return(1)

Spec == Init /\ [][Next]_vars

\* the registry the concurrent specification starts with
InitConc ==
    /\ link = LinkIdle
    /\ file = FileIdle
    /\ registry = <<"mermaid", "direction">>
    /\ calls = [c \in 1..NumCalls |-> CallIdle]
    /\ mermaidBlocks = <<>>
    /\ directionBlocks = <<>>

\* NumCalls goroutines render documents of the default layout concurrently
NextConc ==
    \E c \in 1..NumCalls :
        \/ Enter(c, PlainDocs)
        \/ Process(c)
        \/ Convert(c)
        \/ RestoreMermaidBlocks(c)
        \/ RestoreDirectionBlocks(c)
        \/ Return(c)

SpecConc == InitConc /\ [][NextConc]_vars

(***************************************************************************)
(* Claims about renderLink.                                                *)
(***************************************************************************)
\* C1 (as stated): once the walk has entered and left a link node whose
\* destination is not an /api/files/ ... .pdf link, the writer holds exactly one
\* standard anchor, closed once.
C1_OneStandardAnchor ==
    (link.pc = "left" /\ ~IsPdfFileLink(link.Destination))
        => link.w = StandardAnchor(link.Destination, link.Text)

\* the href C2 expects: the first len("/api/files") characters dropped whatever
\* their case, then the directory, the query and the base name
C2_ExpectedHref(destination) ==
    EscapeHTML(Dir(SubSeq(destination, Len(ApiFiles) + 1, Len(destination))))
        \o PdfQuery \o Base(destination)

\* C2 (as stated): for a destination that case-insensitively starts with
\* /api/files/ and ends with .pdf, the entering call writes an anchor whose href
\* is the prefix-stripped directory, ?mode=pdf&file= and the base name, followed
\* by the link text, and the href does not begin with the file-serving prefix.
C2_PdfHrefStripped ==
    (link.pc \in {"entered", "left"} /\ IsPdfFileLink(link.Destination))
        => /\ HasPrefix(link.w, AnchorOpen \o C2_ExpectedHref(link.Destination)
                                  \o TagEnd \o link.Text)
           /\ ~HasPrefix(ToLower(SubSeq(link.w, Len(AnchorOpen) + 1, Len(link.w))),
                         ApiFilesSlash)

(***************************************************************************)
(* Claims about RenderMarkdownFile.                                        *)
(***************************************************************************)
UnderContentRoot == file.pc = "rendered" /\ file.root = <<DataSeg, DocumentsSeg>>

\* C6 (as stated): for a readable file data/documents/<d1>/.../<dn>/<name>.md the
\* document path passed on is <d1>/.../<dn>/<name>.
C6_DocPathNamesFile ==
    UnderContentRoot => file.docPath = Join(file.dirs \o <<file.stem>>)

\* C6 (amended): for a readable file data/documents/<d1>/.../<dn>/<name>.md the
\* document path passed on is the file's directory relative to the content root,
\* <d1>/.../<dn> with forward slashes, and "." when the file lies in the content
\* root itself; the file's own name is no part of it.
C6_DocPathIsDirectory ==
    UnderContentRoot =>
        file.docPath = IF file.dirs = <<>> THEN <<".">> ELSE Join(file.dirs)

\* data/documents/team/page.md has been rendered with document path "team"
C6_Witness ==
    /\ UnderContentRoot
    /\ file.dirs = << <<"t","e","a","m">> >>
    /\ file.stem = <<"p","a","g","e">>
    /\ file.docPath = <<"t","e","a","m">>

(***************************************************************************)
(* Claims about RenderMarkdownWithPath.                                    *)
(***************************************************************************)
\* the layout the document's own metadata block names, "none" without a block
DocLayout(md) ==
    IF md # <<>> /\ md[1].kind = "frontmatter" THEN md[1].s[1] ELSE "none"

\* the body below the metadata block
DocBody(md) ==
    IF md # <<>> /\ md[1].kind = "frontmatter" THEN Tail(md) ELSE md

Fns(log) == [i \in 1..Len(log) |-> log[i].fn]
Count(log, fn) == Cardinality({ i \in 1..Len(log) : log[i].fn = fn })
Direct == {"RenderLinks", "ProcessMarkdown", "Convert"}

\* C3: a document whose layout is exactly "kanban" never reaches RenderLinks,
\* ProcessMarkdown or Convert from RenderMarkdownWithPath, and when the call is
\* done the board renderer has been invoked exactly once, with the body below the
\* metadata block, and its HTML is what is returned.
C3_KanbanTakesBoardRenderer ==
    \A c \in 1..NumCalls :
        LET call == calls[c] IN
        (call.pc # "idle" /\ DocLayout(call.md0) = "kanban") =>
            /\ \A i \in 1..Len(call.log) : call.log[i].fn \notin Direct
            /\ call.pc \in {"L120", "done"}
            /\ call.pc = "done" =>
                 /\ Count(call.log, "RenderKanbanWithProcessors") = 1
                 /\ call.log[2] = LogEntry("RenderKanbanWithProcessors",
                                           DocBody(call.md0), NoPath, call.result)

\* a kanban document with a block in it has been rendered by the board renderer
C3_Witness ==
    \E c \in 1..NumCalls :
        /\ calls[c].pc = "done"
        /\ DocLayout(calls[c].md0) = "kanban"
        /\ Count(calls[c].log, "RenderKanbanWithProcessors") = 1
        /\ calls[c].minted # {}

C5_ConvertErrorFragment ==
    \A c \in 1..NumCalls :
        LET call == calls[c] IN
        call.convertErr =>
            /\ call.pc = "done"
            /\ Len(call.result) = 1
            /\ call.result[1].kind = "p"
            /\ call.result[1].s[1] = ErrorText
            /\ \A i \in 1..Len(call.buf) : call.buf[i] # call.result[1]

\* Convert failed after writing part of the HTML
C5_Witness ==
    \E c \in 1..NumCalls :
        /\ calls[c].convertErr
        /\ calls[c].buf # <<>>
        /\ calls[c].pc = "done"

Extraction == Preprocessors \cup {"ProcessMarkdown"}

\* C8: in every call's sequence of invocations, nothing of the preprocessing
\* follows Convert and Convert follows ProcessMarkdown; on the default path the
\* diagram restoration takes Convert's output; a direction restoration comes
\* directly after a diagram restoration and takes its output, on the default
\* path and inside the board renderer's post-processor alike; a finished call
\* without a Convert error has run both restorations, in that order, last.
C8_StageOrder ==
    \A c \in 1..NumCalls :
        LET call == calls[c]
            log == call.log
            n == Len(log)
        IN
        /\ \A j \in 1..n :
             /\ log[j].fn = "Convert" =>
                  /\ \E i \in 1..(j-1) : log[i].fn = "ProcessMarkdown"
                  /\ \A k \in (j+1)..n : log[k].fn \notin Extraction
             /\ (log[j].fn = "RestoreMermaidBlocks" /\ call.path # "kanban") =>
                  /\ log[j-1].fn = "Convert"
                  /\ log[j].arg = log[j-1].out
             /\ log[j].fn = "RestoreMermaidBlocks" =>
                  \A k \in (j+1)..n : log[k].fn \notin Extraction \cup {"Convert"}
             /\ log[j].fn = "RestoreDirectionBlocks" =>
                  /\ j = n
                  /\ log[j-1].fn = "RestoreMermaidBlocks"
                  /\ log[j].arg = log[j-1].out
        /\ (call.pc = "done" /\ call.path \in {"default", "fallback", "kanban"}) =>
             /\ n >= 2
             /\ log[n].fn = "RestoreDirectionBlocks"
             /\ call.result = log[n].out

\* a default-path call has finished with blocks of both families restored
C8_Witness ==
    \E c \in 1..NumCalls :
        /\ calls[c].pc = "done"
        /\ calls[c].path = "default"
        /\ \E i, j \in 1..Len(calls[c].replaced) :
             /\ calls[c].replaced[i].kind = "mermaidToken"
             /\ calls[c].replaced[j].kind = "directionToken"

\* the invocations the registered preprocessors received, in order
Received(log) == SelectSeq(log, LAMBDA e : e.fn \in Preprocessors)

C7_PlaceholdersPrivate ==
    \A c \in 1..NumCalls :
        \A i \in 1..Len(calls[c].replaced) : calls[c].replaced[i] \in calls[c].minted

\* C9 (as stated): when a call that ran extraction is done, on whichever return,
\* every token its extraction minted has been replaced exactly once.
C9_EveryTokenConsumed ==
    \A c \in 1..NumCalls :
        LET call == calls[c] IN
        (call.pc = "done" /\ Count(call.log, "ProcessMarkdown") = 1) =>
            \A t \in call.minted :
                Cardinality({ i \in 1..Len(call.replaced) : call.replaced[i] = t }) = 1

====
